---- MODULE Spec2Model ----
(***************************************************************************)
(* Model of IgGM/protein/utils.py: get_mlm_masks, apply_mlm_masks and      *)
(* init_qta_params.  Each function is one call: the action draws the       *)
(* arguments (and the values the random generator hands out) from bounded  *)
(* sets, runs the whole body and records arguments and outcome.            *)
(***************************************************************************)
EXTENDS Integers, Sequences, FiniteSets, TLC

(* op: the function called; args: its arguments; rnd: the values the random
   generator handed out during the call; ret: what the call ended in *)
VARIABLES op, args, rnd, ret

vars == <<op, args, rnd, ret>>

(* ------------------------------ bounds -------------------------------- *)

MaxSeqs == 3
MaxSeqLen == 2
MaxTotalLen == 5
MaxBatchSize == 2
MaxTokLen == 2
MaxToks == 2
MaxSmpls == 2
MaxResds == 2
MaxFrams == 2

(* residue symbols the modelled callers use (a subset of RESD_NAMES_1C) *)
SeqResidues == {"A", "C"}

(* mask_prob as a fraction <<numerator, denominator>>; 0.15 is the default *)
MaskProbs == {<<15, 100>>, <<1, 2>>, <<1, 1>>, <<3, 2>>}

(* ------------------------------ helpers ------------------------------- *)

RECURSIVE SumLens(_)
SumLens(ss) == IF ss = <<>> THEN 0 ELSE Len(Head(ss)) + SumLens(Tail(ss))

RECURSIVE Concat(_)
Concat(ss) == IF ss = <<>> THEN <<>> ELSE Head(ss) \o Concat(Tail(ss))

SeqsUpTo(S, n) == UNION {[1..k -> S] : k \in 0..n}

NonEmptySeqsUpTo(S, n) == UNION {[1..k -> S] : k \in 1..n}

(* int(x): truncation toward zero of a / b, b > 0 *)
Trunc(a, b) == IF a >= 0 THEN a \div b ELSE -((-a) \div b)

(* ---------------------------- get_mlm_masks ---------------------------- *)

(* torch.nonzero(mask_vecs[seq_idx])[:, 0].tolist() / list(range(len(aa_seq))) *)
IdxsResdCand(aa_seq, has_mask_vecs, mask_vecs, seq_idx) ==
    IF ~has_mask_vecs
    THEN 1..Len(aa_seq)
    ELSE {k \in 1..Len(mask_vecs[seq_idx]) : mask_vecs[seq_idx][k] # 0}

(* int(n_resds_cand * mask_prob + 0.5) *)
NResdsMask(n_resds_cand, mask_prob) ==
    Trunc(2 * n_resds_cand * mask_prob[1] + mask_prob[2], 2 * mask_prob[2])

(* random.sample(population, k): raises ValueError unless 0 <= k <= len *)
SampleFails(population, k) == k < 0 \/ k > Cardinality(population)

RandomSample(population, k) == {S \in SUBSET population : Cardinality(S) = k}

(* torch.zeros(len(aa_seq)); mask_vec[idxs_resd] = 1 *)
MaskVecOf(aa_seq, idxs_resd) ==
    [k \in 1..Len(aa_seq) |-> IF k \in idxs_resd THEN 1 ELSE 0]

(* the key under which a sequence's mask is cached: the sequence string itself *)
DictKeyByIndex(aa_seq, seq_idx) == seq_idx

DictKey(aa_seq, seq_idx) == aa_seq

(* the loop of lines 28-42 from seq_idx on: every [failed, dict] it can end in *)
RECURSIVE MaskVecDicts(_, _, _, _, _, _)
MaskVecDicts(aa_seqs, has_mask_vecs, mask_vecs, mask_prob, seq_idx, dict) ==
    IF seq_idx > Len(aa_seqs)
    THEN {[failed |-> FALSE, dict |-> dict]}
    ELSE LET aa_seq == aa_seqs[seq_idx]
         IN  IF DictKey(aa_seq, seq_idx) \in DOMAIN dict
             THEN MaskVecDicts(aa_seqs, has_mask_vecs, mask_vecs, mask_prob,
                               seq_idx + 1, dict)
             ELSE LET cand == IdxsResdCand(aa_seq, has_mask_vecs, mask_vecs, seq_idx)
                      n_resds_mask == NResdsMask(Cardinality(cand), mask_prob)
                  IN  IF SampleFails(cand, n_resds_mask)
                      THEN {[failed |-> TRUE, dict |-> dict]}
                      ELSE UNION {MaskVecDicts(aa_seqs, has_mask_vecs, mask_vecs,
                                               mask_prob, seq_idx + 1,
                                               (DictKey(aa_seq, seq_idx) :> MaskVecOf(aa_seq, idxs_resd)) @@ dict)
                                  : idxs_resd \in RandomSample(cand, n_resds_mask)}

EmptyDict == [x \in {} |-> <<>>]

(* the outcomes of one call: the concatenated mask, or the ValueError of random.sample *)
GetMlmMasks(aa_seqs, has_mask_vecs, mask_vecs, mask_prob) ==
    {IF r.failed
     THEN [status |-> "ValueError", mask_vec |-> <<>>]
     ELSE [status |-> "ok",
           mask_vec |-> Concat([i \in 1..Len(aa_seqs) |-> r.dict[DictKey(aa_seqs[i], i)]])]
     : r \in MaskVecDicts(aa_seqs, has_mask_vecs, mask_vecs, mask_prob, 1, EmptyDict)}

(* the eligibility lists a caller can pass for aa_seqs: one 0/1 vector of length L_i each *)
RECURSIVE MaskVecsFor(_)
MaskVecsFor(aa_seqs) ==
    IF aa_seqs = <<>>
    THEN {<<>>}
    ELSE {<<v>> \o rest : v \in [1..Len(Head(aa_seqs)) -> {0, 1}],
                          rest \in MaskVecsFor(Tail(aa_seqs))}

AaSeqs == NonEmptySeqsUpTo(SeqResidues, MaxSeqLen)

CallGetMlmMasks ==
    /\ op = "idle"
    /\ \E aa_seqs \in NonEmptySeqsUpTo(AaSeqs, MaxSeqs) :
         /\ SumLens(aa_seqs) <= MaxTotalLen
         /\ \E has_mask_vecs \in BOOLEAN :
              \E mask_vecs \in (IF has_mask_vecs THEN MaskVecsFor(aa_seqs) ELSE {<<>>}),
                 mask_prob \in MaskProbs :
                \E r \in GetMlmMasks(aa_seqs, has_mask_vecs, mask_vecs, mask_prob) :
                  /\ op' = "get_mlm_masks"
                  /\ args' = [aa_seqs |-> aa_seqs, mask_prob |-> mask_prob,
                              has_mask_vecs |-> has_mask_vecs, mask_vecs |-> mask_vecs]
                  /\ rnd' = <<>>
                  /\ ret' = r

(* --------------------------- apply_mlm_masks --------------------------- *)

(* the alphabet handed in: get_idx on residue symbols and the mask token's index *)
Alphabet == [mask_idx |-> 32, get_idx |-> ("A" :> 5 @@ "C" :> 23 @@ "G" :> 6)]

(* residue symbols random.choices draws in the model (a subset of RESD_NAMES_1C) *)
TokPool == {"A", "C"}

(* token indices of the original matrix in the model *)
OrigTokens == {5, 6}

(* torch.rand values in thousandths, around the two thresholds *)
ProbValues == {0, 799, 800, 850, 900, 901}

PriThreshold == 800
SecThreshold == 900

(* (mask_mat * torch.lt(prob_mat, 0.8)).to(torch.bool), one entry *)
MaskMatPri(mask, prob) == (mask * (IF prob < PriThreshold THEN 1 ELSE 0)) # 0

(* (mask_mat * torch.gt(prob_mat, 0.9)).to(torch.bool), one entry *)
MaskMatSecGe(mask, prob) == (mask * (IF prob >= SecThreshold THEN 1 ELSE 0)) # 0

MaskMatSec(mask, prob) == (mask * (IF prob > SecThreshold THEN 1 ELSE 0)) # 0

(* torch.tensor([alphabet.get_idx(x) for x in toks]).view(batch_size, seq_len), one entry *)
ToknMatSec(toks, alphabet, seq_len, b, l) == alphabet.get_idx[toks[(b - 1) * seq_len + l]]

(* torch.where(mask_mat_pri, tokn_mat_pri, torch.where(mask_mat_sec, tokn_mat_sec, tokn_mat_orig)) *)
ApplyMlmMasks(tokn_mat_orig, mask_mat, alphabet, toks, prob_mat) ==
    LET batch_size == Len(tokn_mat_orig)
        seq_len == Len(tokn_mat_orig[1])
    IN  [b \in 1..batch_size |->
            [l \in 1..seq_len |->
                IF MaskMatPri(mask_mat[b][l], prob_mat[b][l])
                THEN alphabet.mask_idx * 1
                ELSE IF MaskMatSec(mask_mat[b][l], prob_mat[b][l])
                     THEN ToknMatSec(toks, alphabet, seq_len, b, l)
                     ELSE tokn_mat_orig[b][l]]]

Matrices(batch_size, seq_len, S) == [1..batch_size -> [1..seq_len -> S]]

CallApplyMlmMasks ==
    /\ op = "idle"
    /\ \E batch_size \in 1..MaxBatchSize, seq_len \in 1..MaxTokLen :
         /\ batch_size * seq_len <= MaxToks
         /\ \E tokn_mat_orig \in Matrices(batch_size, seq_len, OrigTokens),
               mask_mat \in Matrices(batch_size, seq_len, {0, 1}),
               toks \in [1..(batch_size * seq_len) -> TokPool],
               prob_mat \in Matrices(batch_size, seq_len, ProbValues) :
              /\ op' = "apply_mlm_masks"
              /\ args' = [tokn_mat_orig |-> tokn_mat_orig, mask_mat |-> mask_mat,
                          alphabet |-> Alphabet]
              /\ rnd' = [toks |-> toks, prob_mat |-> prob_mat]
              /\ ret' = [status |-> "ok",
                         tokn_mat_pert |-> ApplyMlmMasks(tokn_mat_orig, mask_mat, Alphabet,
                                                         toks, prob_mat)]

(* --------------------------- init_qta_params --------------------------- *)

N_ANGLS_PER_RESD == 7

(* mode strings callers pass: the three the function knows and two it does not *)
Modes == {"black-hole", "3d-cord", "random", "canonical", "Random"}

(* a tensor argument: not supplied (None), or a shape and, where the shape is the
   expected one, the data *)
None == [supplied |-> FALSE, shape |-> <<>>, data |-> <<>>]

Tensor(shape, data) == [supplied |-> TRUE, shape |-> shape, data |-> data]

(* an outcome that is an exception: nothing is returned *)
Raise(error) ==
    [status |-> error, quat_tns |-> <<>>, trsl_tns |-> <<>>, angl_tns |-> <<>>, n_rand |-> 0]

(* torch.cat([torch.ones((n, l, 1)), torch.zeros((n, l, 3))], dim=2), one residue *)
QuatBlackHoleSine == <<0, 0, 0, 1>>

QuatBlackHole == <<1>> \o <<0, 0, 0>>

(* torch.zeros((n_smpls, n_resds, 3)), one residue *)
TrslBlackHole == <<0, 0, 0>>

(* torch.cat([ones(.., K, 1), zeros(.., K, 1)], dim=3), one residue: cos = 1, sin = 0 *)
AnglBlackHole == [k \in 1..N_ANGLS_PER_RESD |-> <<1>> \o <<0>>]

Fill(n_smpls, n_resds, v) == [n \in 1..n_smpls |-> [l \in 1..n_resds |-> v]]

(* lines 104-113 *)
InitBlackHole(n_smpls, n_resds) ==
    [status |-> "ok",
     quat_tns |-> Fill(n_smpls, n_resds, QuatBlackHole),
     trsl_tns |-> Fill(n_smpls, n_resds, TrslBlackHole),
     angl_tns |-> Fill(n_smpls, n_resds, AnglBlackHole),
     n_rand |-> 0]

(* -- the frame builder and the quaternion codec (IgGM/utils/diff_util.py) -- *)

Dot(u, v) == u[1] * v[1] + u[2] * v[2] + u[3] * v[3]

Sub(u, v) == <<u[1] - v[1], u[2] - v[2], u[3] - v[3]>>

Scale(c, v) == <<c * v[1], c * v[2], c * v[3]>>

Cross(u, v) ==
    <<u[2] * v[3] - u[3] * v[2], u[3] * v[1] - u[1] * v[3], u[1] * v[2] - u[2] * v[1]>>

(* the square root, on the squares the modelled coordinates produce *)
Sqrt(x) == CHOOSE r \in 0..x : r * r = x

Normalize(v) == LET n == Sqrt(Dot(v, v)) IN <<v[1] \div n, v[2] \div n, v[3] \div n>>

(* what the builder yields where an axis has zero length: no usable number *)
Degenerate == "degenerate"

DegenerateRota == [degenerate |-> TRUE, m |-> <<>>]

(* one residue, cord = <<N, CA, C>>: e1 = normalize(C - CA), e2 = normalize(v2 -
   (v2 . e1) e1) with v2 = N - CA, e3 = e1 x e2; the translation is CA *)
Cord2Fram(cord) ==
    LET v1 == Sub(cord[3], cord[2])
        v2 == Sub(cord[1], cord[2])
    IN  IF Dot(v1, v1) = 0
        THEN [rota |-> DegenerateRota, trsl |-> cord[2]]
        ELSE LET e1 == Normalize(v1)
                 u2 == Sub(v2, Scale(Dot(v2, e1), e1))
             IN  IF Dot(u2, u2) = 0
                 THEN [rota |-> DegenerateRota, trsl |-> cord[2]]
                 ELSE LET e2 == Normalize(u2)
                          e3 == Cross(e1, e2)
                      IN  [rota |-> [degenerate |-> FALSE,
                                     m |-> <<<<e1[1], e2[1], e3[1]>>,
                                             <<e1[2], e2[2], e3[2]>>,
                                             <<e1[3], e2[3], e3[3]>>>>],
                           trsl |-> cord[2]]

(* cord2fram_batch over the flattened n_frams x 3 x 3 coordinates *)
Cord2FramBatch(cord_mat) ==
    [rota_tns |-> [f \in 1..Len(cord_mat) |-> Cord2Fram(cord_mat[f]).rota],
     trsl_mat |-> [f \in 1..Len(cord_mat) |-> Cord2Fram(cord_mat[f]).trsl]]

(* rotation matrix to (qr, qx, qy, qz), the branch chosen by the trace and the
   largest diagonal element *)
Rota2Quat(rota) ==
    IF rota.degenerate
    THEN <<Degenerate, Degenerate, Degenerate, Degenerate>>
    ELSE LET R == rota.m
             tr == R[1][1] + R[2][2] + R[3][3]
         IN  IF tr > 0
             THEN LET s == 2 * Sqrt(1 + tr)
                  IN  <<s \div 4, (R[3][2] - R[2][3]) \div s,
                        (R[1][3] - R[3][1]) \div s, (R[2][1] - R[1][2]) \div s>>
             ELSE IF R[1][1] >= R[2][2] /\ R[1][1] >= R[3][3]
             THEN LET s == 2 * Sqrt(1 + R[1][1] - R[2][2] - R[3][3])
                  IN  <<(R[3][2] - R[2][3]) \div s, s \div 4,
                        (R[1][2] + R[2][1]) \div s, (R[1][3] + R[3][1]) \div s>>
             ELSE IF R[2][2] >= R[3][3]
             THEN LET s == 2 * Sqrt(1 + R[2][2] - R[1][1] - R[3][3])
                  IN  <<(R[1][3] - R[3][1]) \div s, (R[1][2] + R[2][1]) \div s,
                        s \div 4, (R[2][3] + R[3][2]) \div s>>
             ELSE LET s == 2 * Sqrt(1 + R[3][3] - R[1][1] - R[2][2])
                  IN  <<(R[2][1] - R[1][2]) \div s, (R[1][3] + R[3][1]) \div s,
                        (R[2][3] + R[3][2]) \div s, s \div 4>>

(* ------------------------------ 3d-cord -------------------------------- *)

(* cord_tns.view(n_frams, 3, 3): row-major flattening of the first two axes *)
ViewFrams(tns, n_smpls, n_resds) ==
    [f \in 1..(n_smpls * n_resds) |-> tns[((f - 1) \div n_resds) + 1][((f - 1) % n_resds) + 1]]

(* mat.view(n_smpls, n_resds, k) *)
ViewSmpls(mat, n_smpls, n_resds) ==
    [n \in 1..n_smpls |-> [l \in 1..n_resds |-> mat[(n - 1) * n_resds + l]]]

(* torch.all(cmsk_tns, dim=2, keepdim=True): one flag per residue *)
RmskTnsPerSample(cmsk_tns) ==
    [n \in 1..Len(cmsk_tns) |->
        [l \in 1..Len(cmsk_tns[n]) |->
            \A ll \in 1..Len(cmsk_tns[n]) : \A a \in 1..3 : cmsk_tns[n][ll][a]]]

RmskTns(cmsk_tns) ==
    [n \in 1..Len(cmsk_tns) |->
        [l \in 1..Len(cmsk_tns[n]) |-> \A a \in 1..3 : cmsk_tns[n][l][a]]]

(* torch.where(rmsk_tns, x, y) with rmsk_tns broadcast over the last axis *)
Where(rmsk_tns, x, y) ==
    [n \in 1..Len(rmsk_tns) |->
        [l \in 1..Len(rmsk_tns[n]) |-> IF rmsk_tns[n][l] THEN x[n][l] ELSE y[n][l]]]

(* assert list(tns.shape) == shape: None has no attribute shape *)
CheckShapeNoneAsMismatch(tns, shape) ==
    IF ~tns.supplied \/ tns.shape # shape THEN "AssertionError" ELSE "ok"

CheckShape(tns, shape) ==
    IF ~tns.supplied THEN "AttributeError"
    ELSE IF tns.shape # shape THEN "AssertionError"
    ELSE "ok"

(* lines 114-133 *)
Init3dCord(n_smpls, n_resds, cord_tns, cmsk_tns) ==
    IF CheckShape(cord_tns, <<n_smpls, n_resds, 3, 3>>) # "ok"
    THEN Raise(CheckShape(cord_tns, <<n_smpls, n_resds, 3, 3>>))
    ELSE IF CheckShape(cmsk_tns, <<n_smpls, n_resds, 3>>) # "ok"
    THEN Raise(CheckShape(cmsk_tns, <<n_smpls, n_resds, 3>>))
    ELSE LET fram == Cord2FramBatch(ViewFrams(cord_tns.data, n_smpls, n_resds))
             quat_mat == [f \in 1..Len(fram.rota_tns) |-> Rota2Quat(fram.rota_tns[f])]
             quat_tns == ViewSmpls(quat_mat, n_smpls, n_resds)
             trsl_tns == ViewSmpls(fram.trsl_mat, n_smpls, n_resds)
             rmsk_tns == RmskTns(cmsk_tns.data)
             bh == InitBlackHole(n_smpls, n_resds)
         IN  [status |-> "ok",
              quat_tns |-> Where(rmsk_tns, quat_tns, bh.quat_tns),
              trsl_tns |-> Where(rmsk_tns, trsl_tns, bh.trsl_tns),
              angl_tns |-> Fill(n_smpls, n_resds, AnglBlackHole),
              n_rand |-> 0]

(* ------------------------------- random -------------------------------- *)

(* x / norm with norm = sqrt(norm2), kept exact *)
Div(x, norm2) == [num |-> x, norm2 |-> norm2]

(* quat_tns[quat_tns[:, :, 0] < 0.0] *= -1, one residue *)
FlipQrOnly(quat) == IF quat[1] < 0 THEN <<-quat[1], quat[2], quat[3], quat[4]>> ELSE quat

FlipNegQr(quat) == IF quat[1] < 0 THEN [k \in 1..4 |-> -1 * quat[k]] ELSE quat

RECURSIVE SumSq(_)
SumSq(v) == IF v = <<>> THEN 0 ELSE Head(v) * Head(v) + SumSq(Tail(v))

(* v /= torch.norm(v, dim=-1, keepdim=True), one vector *)
UnitNorm(v) == [k \in 1..Len(v) |-> Div(v[k], SumSq(v))]

(* lines 134-141; randn holds the values torch.randn hands out *)
InitRandom(n_smpls, n_resds, randn) ==
    [status |-> "ok",
     quat_tns |-> [n \in 1..n_smpls |-> [l \in 1..n_resds |->
                      UnitNorm(FlipNegQr(randn.quat[n][l]))]],
     trsl_tns |-> randn.trsl,
     angl_tns |-> [n \in 1..n_smpls |-> [l \in 1..n_resds |->
                      [k \in 1..N_ANGLS_PER_RESD |-> UnitNorm(randn.angl[n][l][k])]]],
     n_rand |-> n_smpls * n_resds * 4 + n_smpls * n_resds * 3
                + n_smpls * n_resds * N_ANGLS_PER_RESD * 2]

(* ----------------------------- the function ---------------------------- *)

(* the else branch: raise ValueError(unrecognized initialization mode) *)
UnrecognizedModeFallsBack(n_smpls, n_resds, mode) == InitBlackHole(n_smpls, n_resds)

UnrecognizedMode(n_smpls, n_resds, mode) == Raise("ValueError")

InitQtaParams(n_smpls, n_resds, mode, cord_tns, cmsk_tns, randn) ==
    IF mode = "black-hole" THEN InitBlackHole(n_smpls, n_resds)
    ELSE IF mode = "3d-cord" THEN Init3dCord(n_smpls, n_resds, cord_tns, cmsk_tns)
    ELSE IF mode = "random" THEN InitRandom(n_smpls, n_resds, randn)
    ELSE UnrecognizedMode(n_smpls, n_resds, mode)

(* ------------------------- the modelled inputs ------------------------- *)

(* backbone geometries <<N, CA, C>> of one residue *)
CordGeoms ==
    {<<<<0, 1, 0>>, <<0, 0, 0>>, <<1, 0, 0>>>>,
     <<<<2, -1, 3>>, <<1, 2, 3>>, <<3, 2, 3>>>>,
     <<<<-1, 2, 2>>, <<-1, 0, 2>>, <<-4, 0, 2>>>>}

(* the coordinates of a residue whose atoms are missing *)
ZeroGeom == <<<<0, 0, 0>>, <<0, 0, 0>>, <<0, 0, 0>>>>

AllValid(flags) == \A a \in 1..3 : flags[a]

(* coordinates and validity flags of the expected shapes; zero-filled
   coordinates only come with a residue flagged as missing atoms *)
CordData(n_smpls, n_resds) == [1..n_smpls -> [1..n_resds -> CordGeoms \cup {ZeroGeom}]]

CmskData(n_smpls, n_resds) == [1..n_smpls -> [1..n_resds -> [1..3 -> BOOLEAN]]]

WrongCordShapes(n_smpls, n_resds) ==
    {<<n_smpls + 1, n_resds, 3, 3>>, <<n_smpls * n_resds, 3, 3>>, <<n_smpls, n_resds, 3>>}

WrongCmskShapes(n_smpls, n_resds) ==
    {<<n_smpls, n_resds + 1, 3>>, <<n_smpls, n_resds>>, <<n_smpls, n_resds, 3, 1>>}

BadCord(n_smpls, n_resds) ==
    {None} \cup {Tensor(sh, <<>>) : sh \in WrongCordShapes(n_smpls, n_resds)}

BadCmsk(n_smpls, n_resds) ==
    {None} \cup {Tensor(sh, <<>>) : sh \in WrongCmskShapes(n_smpls, n_resds)}

GoodCord(n_smpls, n_resds) ==
    {Tensor(<<n_smpls, n_resds, 3, 3>>, d) : d \in CordData(n_smpls, n_resds)}

GoodCmsk(n_smpls, n_resds) ==
    {Tensor(<<n_smpls, n_resds, 3>>, d) : d \in CmskData(n_smpls, n_resds)}

SampleCord(n_smpls, n_resds) ==
    Tensor(<<n_smpls, n_resds, 3, 3>>,
           Fill(n_smpls, n_resds, <<<<2, -1, 3>>, <<1, 2, 3>>, <<3, 2, 3>>>>))

SampleCmsk(n_smpls, n_resds) ==
    Tensor(<<n_smpls, n_resds, 3>>, Fill(n_smpls, n_resds, <<TRUE, TRUE, FALSE>>))

(* the <<cord_tns, cmsk_tns>> pairs passed along with a mode *)
CordArgs(mode, n_smpls, n_resds) ==
    IF mode # "3d-cord"
    THEN {<<None, None>>, <<SampleCord(n_smpls, n_resds), SampleCmsk(n_smpls, n_resds)>>}
    ELSE {cc \in GoodCord(n_smpls, n_resds) \X GoodCmsk(n_smpls, n_resds) :
             \A n \in 1..n_smpls : \A l \in 1..n_resds :
                 cc[1].data[n][l] = ZeroGeom => ~AllValid(cc[2].data[n][l])}
         \cup (BadCord(n_smpls, n_resds)
                \X (BadCmsk(n_smpls, n_resds) \cup {SampleCmsk(n_smpls, n_resds)}))
         \cup ({SampleCord(n_smpls, n_resds)} \X BadCmsk(n_smpls, n_resds))

(* values torch.randn hands out: one residue's quaternion, translation, angles *)
RandnQuats == {<<-1, 2, 0, -2>>, <<1, -2, 2, 0>>, <<0, -1, 0, 0>>, <<-2, -1, 1, 1>>}

RandnTrsls == {<<1, -2, 3>>, <<-1, 0, 2>>}

RandnAngls ==
    {[k \in 1..N_ANGLS_PER_RESD |-> <<3, 4>>],
     [k \in 1..N_ANGLS_PER_RESD |-> IF k % 2 = 1 THEN <<-1, 0>> ELSE <<0, 2>>]}

NoRandn == [quat |-> <<>>, trsl |-> <<>>, angl |-> <<>>]

Randn(mode, n_smpls, n_resds) ==
    IF mode # "random"
    THEN {NoRandn}
    ELSE [quat : [1..n_smpls -> [1..n_resds -> RandnQuats]],
          trsl : [1..n_smpls -> [1..n_resds -> RandnTrsls]],
          angl : [1..n_smpls -> [1..n_resds -> RandnAngls]]]

CallInitQtaParams ==
    /\ op = "idle"
    /\ \E n_smpls \in 1..MaxSmpls, n_resds \in 1..MaxResds, mode \in Modes :
         /\ n_smpls * n_resds <= MaxFrams
         /\ \E cc \in CordArgs(mode, n_smpls, n_resds),
               randn \in Randn(mode, n_smpls, n_resds) :
              /\ op' = "init_qta_params"
              /\ args' = [n_smpls |-> n_smpls, n_resds |-> n_resds, mode |-> mode,
                          cord_tns |-> cc[1], cmsk_tns |-> cc[2]]
              /\ rnd' = randn
              /\ ret' = InitQtaParams(n_smpls, n_resds, mode, cc[1], cc[2], randn)

(* the caller takes the result; the next call starts from scratch *)
Return ==
    /\ op # "idle"
    /\ op' = "idle"
    /\ args' = <<>>
    /\ rnd' = <<>>
    /\ ret' = <<>>

Init ==
    /\ op = "idle"
    /\ args = <<>>
    /\ rnd = <<>>
    /\ ret = <<>>

(* one specification per function: calls of it, each followed by the return *)
NextMasks == CallGetMlmMasks \/ Return

SpecMasks == Init /\ [][NextMasks]_vars

NextCorrupt == CallApplyMlmMasks \/ Return

SpecCorrupt == Init /\ [][NextCorrupt]_vars

NextQta == CallInitQtaParams \/ Return

SpecQta == Init /\ [][NextQta]_vars

(* ------------------------ claims: get_mlm_masks ------------------------ *)

MasksReturned == op = "get_mlm_masks" /\ ret.status = "ok"

(* the part of the returned mask that belongs to input occurrence i *)
Segment(i) ==
    LET off == SumLens(SubSeq(args.aa_seqs, 1, i - 1))
    IN  SubSeq(ret.mask_vec, off + 1, off + Len(args.aa_seqs[i]))

Ones(v) == Cardinality({k \in 1..Len(v) : v[k] = 1})

Eligible(i) == {k \in 1..Len(args.mask_vecs[i]) : args.mask_vecs[i][k] # 0}

FirstOccurrence(i) == \A j \in 1..(i - 1) : args.aa_seqs[j] # args.aa_seqs[i]

(* round-half-up of n * mask_prob, written out: floor((2 n num + den) / (2 den)) *)
RoundHalfUp(n) ==
    (2 * n * args.mask_prob[1] + args.mask_prob[2]) \div (2 * args.mask_prob[2])

(* C1: in one call, occurrences with equal sequence strings get identical mask
   segments, with or without eligibility vectors, also when the occurrences carry
   different eligibility vectors *)
C1_IdenticalSeqsIdenticalMasks ==
    MasksReturned =>
        /\ Len(ret.mask_vec) = SumLens(args.aa_seqs)
        /\ \A i, j \in 1..Len(args.aa_seqs) :
              args.aa_seqs[i] = args.aa_seqs[j] => Segment(i) = Segment(j)

C1_Witness ==
    /\ MasksReturned
    /\ args.has_mask_vecs
    /\ \E i, j \in 1..Len(args.aa_seqs) :
          /\ i < j
          /\ args.aa_seqs[i] = args.aa_seqs[j]
          /\ args.mask_vecs[i] # args.mask_vecs[j]
          /\ Ones(Segment(i)) = 1
          /\ Len(args.aa_seqs[i]) = 2

(* the occurrence whose eligibility vector the loop reads for occurrence i: the
   first one carrying the same sequence string *)
First(i) == CHOOSE j \in 1..i : args.aa_seqs[j] = args.aa_seqs[i] /\ FirstOccurrence(j)

Candidates(i) ==
    IF args.has_mask_vecs THEN Cardinality(Eligible(i)) ELSE Len(args.aa_seqs[i])

(* C2: every occurrence's segment holds exactly round-half-up(n_candidates *
   mask_prob) ones, n_candidates being all L_i positions without eligibility
   vectors and the number of positions flagged eligible for that occurrence
   otherwise *)
C2_ExactCountPerOccurrence ==
    MasksReturned =>
        \A i \in 1..Len(args.aa_seqs) : Ones(Segment(i)) = RoundHalfUp(Candidates(i))

(* what the code does keep: the count of every segment is the round-half-up count
   of the candidates of the first occurrence of its sequence string *)
ExactCountOfFirstOccurrence ==
    MasksReturned =>
        \A i \in 1..Len(args.aa_seqs) :
            /\ Ones(Segment(i)) = RoundHalfUp(Candidates(First(i)))
            /\ \A k \in 1..Len(args.aa_seqs[i]) : Segment(i)[k] \in {0, 1}

(* C5: the call fails with the ValueError and returns no mask whenever some given
   eligibility vector flags fewer positions than round-half-up of its count times
   mask_prob *)
C5_InsufficientCandidatesFail ==
    (/\ op = "get_mlm_masks"
     /\ args.has_mask_vecs
     /\ \E i \in 1..Len(args.aa_seqs) :
           Cardinality(Eligible(i)) < RoundHalfUp(Cardinality(Eligible(i))))
    => (ret.status = "ValueError" /\ ret.mask_vec = <<>>)

(* what the code does keep: the failure for the eligibility vector of a first
   occurrence, the only ones the loop reads *)
InsufficientCandidatesOfFirstOccurrenceFail ==
    (/\ op = "get_mlm_masks"
     /\ args.has_mask_vecs
     /\ \E i \in 1..Len(args.aa_seqs) :
           /\ FirstOccurrence(i)
           /\ Cardinality(Eligible(i)) < RoundHalfUp(Cardinality(Eligible(i))))
    => (ret.status = "ValueError" /\ ret.mask_vec = <<>>)

(* C10: with eligibility vectors, every position masked in an occurrence's segment
   is flagged eligible in that occurrence's own eligibility vector *)
C10_OnlyEligibleMasked ==
    (MasksReturned /\ args.has_mask_vecs) =>
        \A i \in 1..Len(args.aa_seqs) :
            \A k \in 1..Len(args.aa_seqs[i]) :
                Segment(i)[k] = 1 => k \in Eligible(i)

(* ----------------------- claims: apply_mlm_masks ----------------------- *)

Corrupted == op = "apply_mlm_masks" /\ ret.status = "ok"

Positions ==
    {bl \in (1..MaxBatchSize) \X (1..MaxTokLen) :
        bl[1] <= Len(args.tokn_mat_orig) /\ bl[2] <= Len(args.tokn_mat_orig[1])}

(* the residue symbol drawn for position (b, l): row-major in the flat list *)
DrawnTok(b, l) == rnd.toks[(b - 1) * Len(args.tokn_mat_orig[1]) + l]

(* C3: a masked position with r < 0.8 gets the mask token, with r > 0.9 the index
   of the residue drawn for it, with 0.8 <= r <= 0.9 its original token; an
   unmasked position keeps its original token for every r; the output has the
   shape of the input *)
C3_ThreeWayPartition ==
    Corrupted =>
        /\ Len(ret.tokn_mat_pert) = Len(args.tokn_mat_orig)
        /\ \A b \in 1..Len(args.tokn_mat_orig) :
              Len(ret.tokn_mat_pert[b]) = Len(args.tokn_mat_orig[b])
        /\ \A bl \in Positions :
              LET b == bl[1]
                  l == bl[2]
                  m == args.mask_mat[b][l]
                  r == rnd.prob_mat[b][l]
                  out == ret.tokn_mat_pert[b][l]
              IN  /\ (m = 1 /\ r < 800) => out = args.alphabet.mask_idx
                  /\ (m = 1 /\ r > 900) => out = args.alphabet.get_idx[DrawnTok(b, l)]
                  /\ (m = 1 /\ r >= 800 /\ r <= 900) => out = args.tokn_mat_orig[b][l]
                  /\ m = 0 => out = args.tokn_mat_orig[b][l]

(* a call where all three branches and an unmasked position occur, the kept and
   the drawn token differing from the original *)
C3_Witness ==
    /\ Corrupted
    /\ \E bl \in Positions :
          /\ args.mask_mat[bl[1]][bl[2]] = 1
          /\ rnd.prob_mat[bl[1]][bl[2]] = 900
          /\ args.alphabet.get_idx[DrawnTok(bl[1], bl[2])] # args.tokn_mat_orig[bl[1]][bl[2]]
          /\ ret.tokn_mat_pert[bl[1]][bl[2]] = args.tokn_mat_orig[bl[1]][bl[2]]
    /\ \E bl \in Positions :
          /\ args.mask_mat[bl[1]][bl[2]] = 1
          /\ rnd.prob_mat[bl[1]][bl[2]] = 901
          /\ ret.tokn_mat_pert[bl[1]][bl[2]] # args.tokn_mat_orig[bl[1]][bl[2]]

(* ----------------------- claims: init_qta_params ----------------------- *)

QtaCalled(mode) == op = "init_qta_params" /\ args.mode = mode

Resds == {nl \in (1..MaxSmpls) \X (1..MaxResds) : nl[1] <= args.n_smpls /\ nl[2] <= args.n_resds}

NothingReturned == ret.quat_tns = <<>> /\ ret.trsl_tns = <<>> /\ ret.angl_tns = <<>>

(* C4: in 3d-cord mode a residue with any invalid atom gets exactly quaternion
   (1,0,0,0) and translation (0,0,0), a residue with three valid atoms exactly the
   quaternion and translation derived from its own coordinates; decided residue by
   residue *)
C4_PerResidueFallback ==
    (QtaCalled("3d-cord") /\ ret.status = "ok") =>
        \A nl \in Resds :
            LET n == nl[1]
                l == nl[2]
                flags == args.cmsk_tns.data[n][l]
                fram == Cord2Fram(args.cord_tns.data[n][l])
            IN  IF \E a \in 1..3 : ~flags[a]
                THEN /\ ret.quat_tns[n][l] = <<1, 0, 0, 0>>
                     /\ ret.trsl_tns[n][l] = <<0, 0, 0>>
                ELSE /\ ret.quat_tns[n][l] = Rota2Quat(fram.rota)
                     /\ ret.trsl_tns[n][l] = args.cord_tns.data[n][l][2]

(* one sample holding a residue with a single invalid atom and real coordinates,
   set to the canonical pose, next to a valid residue with a derived pose that is
   not the canonical one *)
C4_Witness ==
    /\ QtaCalled("3d-cord")
    /\ ret.status = "ok"
    /\ args.n_resds = 2
    /\ args.cmsk_tns.data[1][1] = <<TRUE, FALSE, TRUE>>
    /\ args.cord_tns.data[1][1] = <<<<2, -1, 3>>, <<1, 2, 3>>, <<3, 2, 3>>>>
    /\ ret.quat_tns[1][1] = <<1, 0, 0, 0>>
    /\ AllValid(args.cmsk_tns.data[1][2])
    /\ ret.quat_tns[1][2] = <<0, 1, 0, 0>>
    /\ ret.trsl_tns[1][2] = <<1, 2, 3>>

BadShapes ==
    \/ ~args.cord_tns.supplied
    \/ args.cord_tns.shape # <<args.n_smpls, args.n_resds, 3, 3>>
    \/ ~args.cmsk_tns.supplied
    \/ args.cmsk_tns.shape # <<args.n_smpls, args.n_resds, 3>>

(* C6 as stated: in 3d-cord mode every input of the wrong shape, a missing input
   included, ends in the shape-mismatch error and nothing is returned *)
C6_ShapeMismatchAlways ==
    (QtaCalled("3d-cord") /\ BadShapes) =>
        (ret.status = "AssertionError" /\ NothingReturned)

(* C6 amended: the call fails and returns nothing; the failure is the
   shape-mismatch assertion when the first offending input is supplied with a wrong
   shape, and the AttributeError of None.shape when it is not supplied *)
C6_ShapeOrMissingInputFails ==
    (QtaCalled("3d-cord") /\ BadShapes) =>
        /\ NothingReturned
        /\ ret.status =
              (IF ~args.cord_tns.supplied THEN "AttributeError"
               ELSE IF args.cord_tns.shape # <<args.n_smpls, args.n_resds, 3, 3>>
                    THEN "AssertionError"
               ELSE IF ~args.cmsk_tns.supplied THEN "AttributeError"
               ELSE "AssertionError")

C6_Witness ==
    /\ QtaCalled("3d-cord")
    /\ args.cord_tns.supplied
    /\ args.cord_tns.shape = <<args.n_smpls, args.n_resds, 3, 3>>
    /\ args.cmsk_tns.supplied
    /\ args.cmsk_tns.shape = <<args.n_smpls, args.n_resds, 3, 1>>
    /\ ret.status = "AssertionError"

QuatShapeOk(t) ==
    /\ Len(t) = args.n_smpls
    /\ \A nl \in Resds : Len(t[nl[1]]) = args.n_resds /\ Len(t[nl[1]][nl[2]]) = 4

TrslShapeOk(t) ==
    /\ Len(t) = args.n_smpls
    /\ \A nl \in Resds : Len(t[nl[1]]) = args.n_resds /\ Len(t[nl[1]][nl[2]]) = 3

AnglShapeOk(t) ==
    /\ Len(t) = args.n_smpls
    /\ \A nl \in Resds :
          /\ Len(t[nl[1]]) = args.n_resds
          /\ Len(t[nl[1]][nl[2]]) = 7
          /\ \A k \in 1..7 : Len(t[nl[1]][nl[2]][k]) = 2

(* C7: a mode outside {black-hole, 3d-cord, random} ends in the unrecognized-mode
   error with nothing returned, whatever the other arguments; a mode inside the set
   with valid inputs returns quaternions N x L x 4, translations N x L x 3 and
   angles N x L x 7 x 2 *)
C7_ModeDispatch ==
    op = "init_qta_params" =>
        /\ args.mode \notin {"black-hole", "3d-cord", "random"} =>
              (ret.status = "ValueError" /\ NothingReturned)
        /\ (args.mode \in {"black-hole", "3d-cord", "random"}
             /\ (args.mode = "3d-cord" => ~BadShapes)) =>
              /\ ret.status = "ok"
              /\ QuatShapeOk(ret.quat_tns)
              /\ TrslShapeOk(ret.trsl_tns)
              /\ AnglShapeOk(ret.angl_tns)

C7_Witness ==
    /\ QtaCalled("canonical")
    /\ args.cord_tns.supplied
    /\ args.n_resds = 2
    /\ ret.status = "ValueError"

(* C8: black-hole mode returns quaternion (1,0,0,0), translation (0,0,0) and the
   pair (1,0) for each of the 7 angles of every residue, the same for every call
   with the same (N, L), and consumes no random value *)
C8_BlackHoleDeterministic ==
    QtaCalled("black-hole") =>
        /\ ret.status = "ok"
        /\ ret.n_rand = 0
        /\ Len(ret.quat_tns) = args.n_smpls
        /\ \A nl \in Resds :
              /\ Len(ret.quat_tns[nl[1]]) = args.n_resds
              /\ ret.quat_tns[nl[1]][nl[2]] = <<1, 0, 0, 0>>
              /\ ret.trsl_tns[nl[1]][nl[2]] = <<0, 0, 0>>
              /\ ret.angl_tns[nl[1]][nl[2]] =
                    <<<<1, 0>>, <<1, 0>>, <<1, 0>>, <<1, 0>>, <<1, 0>>, <<1, 0>>, <<1, 0>>>>

C8_Witness ==
    /\ QtaCalled("black-hole")
    /\ args.n_smpls = 2
    /\ ret.quat_tns[2][1] = <<1, 0, 0, 0>>

(* C9: random mode returns qr >= 0 for every residue: a drawn quaternion with
   qr < 0 has all four components negated before it is normalised, one with
   qr >= 0 is normalised as drawn *)
C9_RandomQrNonNegative ==
    (QtaCalled("random") /\ ret.status = "ok") =>
        \A nl \in Resds :
            LET drawn == rnd.quat[nl[1]][nl[2]]
                quat == ret.quat_tns[nl[1]][nl[2]]
                norm2 == drawn[1] * drawn[1] + drawn[2] * drawn[2]
                         + drawn[3] * drawn[3] + drawn[4] * drawn[4]
            IN  /\ quat[1].num >= 0
                /\ \A k \in 1..4 :
                      /\ quat[k].norm2 = norm2
                      /\ drawn[1] < 0 => quat[k].num = -drawn[k]
                      /\ drawn[1] >= 0 => quat[k].num = drawn[k]

C9_Witness ==
    /\ QtaCalled("random")
    /\ ret.status = "ok"
    /\ args.n_resds = 2
    /\ rnd.quat[1][1] = <<-1, 2, 0, -2>>
    /\ ret.quat_tns[1][1][2] = [num |-> -2, norm2 |-> 9]
    /\ rnd.quat[1][2] = <<0, -1, 0, 0>>
    /\ ret.quat_tns[1][2][2] = [num |-> -1, norm2 |-> 1]

====
